---- MODULE Spec2Model ----
(***************************************************************************)
(* Model of Assignment01/movie_search.py: the MovieSearcher object, its    *)
(* load_movies (build) and search_movies (query) methods.                  *)
(*                                                                         *)
(* Strings are sequences of one-character strings, so that str.strip() is  *)
(* computed.  An optional Python value is a sequence of length 0 (None) or *)
(* 1 (the value).  A DataFrame is [cols, rows]; a row is a function from   *)
(* the frame's columns to cells; the position of a row in `rows` is its    *)
(* positional (iloc) index.                                                *)
(***************************************************************************)
EXTENDS Integers, Sequences, FiniteSets, TLC

VARIABLES
    model,            \* self.model: TRUE when a SentenceTransformer is loaded
    df_movies,        \* self.df_movies: None or a DataFrame
    plot_embeddings,  \* self.plot_embeddings: None or a sequence of vectors
    last,             \* the last call: its arguments, outcome and provider calls
    everBuilt         \* history: some load_movies call has returned normally

vars == <<model, df_movies, plot_embeddings, last, everBuilt>>

(* Bounds *)
MaxRows == 2          \* rows of a source CSV
MaxTopN == 3          \* largest top_n passed to search_movies

None == <<>>
Some(x) == <<x>>
NaN == <<"NaN">>      \* a missing cell (pandas reads an empty CSV field as NaN)

SeqsUpTo(S, n) == UNION {[1..k -> S] : k \in 0..n}

(* ---------------- inputs ---------------- *)

Row(title, plot) == [title |-> title, plot |-> plot]

\* Rows whose plot survives cleaning, and the rows cleaning drops: a blank plot,
\* an empty title field, an empty plot field.
GoodRows == {Row(<<"A">>, <<"s">>), Row(<<"A">>, <<"l">>)}
BadRows == {Row(<<"A">>, <<" ">>), Row(NaN, <<"s">>), Row(<<"A">>, NaN)}

Project(r, cols) == [c \in cols |-> r[c]]

\* A source locator: no file there, a zero-byte file (pandas cannot parse it),
\* or a CSV file with a header line (the columns) and MaxRows rows at most.
NoFile == [kind |-> "missing", cols |-> {}, rows |-> <<>>]
EmptyFile == [kind |-> "empty", cols |-> {}, rows |-> <<>>]
Csv(cols, rows) ==
    [kind |-> "table", cols |-> cols, rows |-> [i \in 1..Len(rows) |-> Project(rows[i], cols)]]

\* CSV files of rows from `rowset`, with the columns `cols`.
Tables(rowset, cols) == {Csv(cols, rs) : rs \in SeqsUpTo(rowset, MaxRows)}

\* Files that lack the plot column: only their length matters later.
LackingColumn == Tables({Row(<<"A">>, <<"s">>)}, {"title"})

\* Every CSV file over GoodRows and BadRows.
AllSources == {NoFile, EmptyFile} \cup Tables(GoodRows \cup BadRows, {"title", "plot"}) \cup LackingColumn

\* The files of the life-cycle specification: every outcome of load_movies, and
\* every corpus over GoodRows.
Sources ==
    {NoFile, EmptyFile} \cup Tables(GoodRows, {"title", "plot"}) \cup LackingColumn
        \cup {Csv({"title", "plot"}, <<r>>) : r \in BadRows}

\* Arguments of search_movies: any Python value for query and for top_n.
StrVal(s) == [isStr |-> TRUE, s |-> s]
NotAStr == [isStr |-> FALSE, s |-> <<>>]
IntVal(n) == [isInt |-> TRUE, n |-> n]
NotAnInt == [isInt |-> FALSE, n |-> 0]

Queries == {NotAStr, StrVal(<<>>), StrVal(<<" ">>), StrVal(<<"s">>), StrVal(<<"s", " ", "l">>)}
TopNs == {NotAnInt} \cup {IntVal(n) : n \in -1..MaxTopN}

(* ---------------- str.strip ---------------- *)

RECURSIVE lstrip(_)
lstrip(s) == IF s # <<>> /\ Head(s) = " " THEN lstrip(Tail(s)) ELSE s

RECURSIVE rstrip(_)
rstrip(s) ==
    IF s # <<>> /\ s[Len(s)] = " " THEN rstrip(SubSeq(s, 1, Len(s) - 1)) ELSE s

strip(s) == rstrip(lstrip(s))

(* ---------------- the embedding provider ---------------- *)

Count(s, ch) == Cardinality({i \in 1..Len(s) : s[i] = ch})

\* SentenceTransformer.encode on one text: a deterministic stand-in that maps a
\* text to a two-dimensional vector (occurrences of "s", occurrences of "l").
Embed(text) == <<Count(text, "s"), Count(text, "l")>>

\* SentenceTransformer.encode on a list of texts: one vector per text, in order.
encode(texts) == [i \in 1..Len(texts) |-> Embed(texts[i])]

(* ---------------- exceptions ---------------- *)

NoErr == [cls |-> "", msg |-> "", site |-> 0]

\* Each raise statement: the exception class, the message text, the source line.
FileNotFound == [cls |-> "FileNotFoundError", msg |-> "Movies CSV file not found at path", site |-> 58]
EmptyData == [cls |-> "EmptyDataError", msg |-> "No columns to parse from file", site |-> 60]
MissingColumns == [cls |-> "ValueError", msg |-> "Missing required columns in CSV", site |-> 66]
StrAccessor == [cls |-> "AttributeError", msg |-> "Can only use .str accessor with string values", site |-> 70]
NoValidPlots == [cls |-> "ValueError", msg |-> "No valid movie plots available after cleaning.", site |-> 72]
ModelLoadFailed == [cls |-> "RuntimeError", msg |-> "Error loading model", site |-> 43]
CorpusEncodeFailed == [cls |-> "RuntimeError", msg |-> "Error computing embeddings", site |-> 82]
BadQuery == [cls |-> "ValueError", msg |-> "Query must be a non-empty string.", site |-> 101]
\* The message of the query check, pasted.
BadTopNQueryMessage == [cls |-> "ValueError", msg |-> "Query must be a non-empty string.", site |-> 104]

BadTopN == [cls |-> "ValueError", msg |-> "top_n must be a positive integer.", site |-> 104]
NotLoaded == [cls |-> "ValueError", msg |-> "Movies data and embeddings are not loaded. Call load_movies() first.", site |-> 107]
QueryEncodeFailed == [cls |-> "RuntimeError", msg |-> "Failed to encode query", site |-> 113]
CosineFailed == [cls |-> "RuntimeError", msg |-> "Error computing cosine similarity", site |-> 119]
NoneHasNoIloc == [cls |-> "AttributeError", msg |-> "'NoneType' object has no attribute 'iloc'", site |-> 125]
IlocOutOfBounds == [cls |-> "IndexError", msg |-> "positional indexers are out-of-bounds", site |-> 125]
ColumnKeyError == [cls |-> "KeyError", msg |-> "not in index", site |-> 134]

(* ---------------- load_movies ---------------- *)

Frame(cols, rows) == [cols |-> cols, rows |-> rows]

\* pd.read_csv: the table of the file.
read_csv(src) == Frame(src.cols, src.rows)

\* dtype read_csv infers for the plot column: object (strings) when the file has
\* no rows or some plot field is not empty, float64 (all NaN) otherwise.
PlotIsObject(rows) == rows = <<>> \/ \E i \in 1..Len(rows) : rows[i]["plot"] # NaN

\* df.dropna(subset=['plot', 'title'])
dropna(rows) == SelectSeq(rows, LAMBDA r : r["plot"] # NaN /\ r["title"] # NaN)

\* df[df['plot'].str.strip() != '']
NonBlank(rows) == SelectSeq(rows, LAMBDA r : strip(r["plot"]) # <<>>)

\* The plots in reverse order.
PlotListReversed(rows) == [i \in 1..Len(rows) |-> rows[Len(rows) + 1 - i]["plot"]]

\* self.df_movies['plot'].tolist()
PlotList(rows) == [i \in 1..Len(rows) |-> rows[i]["plot"]]

Outcome(m, df, emb, err, calls) ==
    [model |-> m, df |-> df, emb |-> emb, err |-> err, calls |-> calls]

\* The outcomes of load_movies(src): the state it leaves and what it raised.
\* Where the provider is asked (load_model, encode) it may fail or answer.
LoadMovies(m, df, emb, src) ==
    IF src.kind = "missing" THEN {Outcome(m, df, emb, FileNotFound, <<>>)}
    ELSE IF src.kind = "empty" THEN {Outcome(m, df, emb, EmptyData, <<>>)}
    ELSE
    LET raw == read_csv(src) IN
    IF ~({"title", "plot"} \subseteq raw.cols)
    THEN {Outcome(m, Some(raw), emb, MissingColumns, <<>>)}
    ELSE
    LET dropped == Frame(raw.cols, dropna(raw.rows)) IN
    IF ~PlotIsObject(raw.rows)
    THEN {Outcome(m, Some(dropped), emb, StrAccessor, <<>>)}
    ELSE
    LET clean == Frame(raw.cols, NonBlank(dropped.rows)) IN
    IF clean.rows = <<>>
    THEN {Outcome(m, Some(clean), emb, NoValidPlots, <<>>)}
    ELSE
    LET texts == PlotList(clean.rows) IN
        (IF m THEN {} ELSE {Outcome(m, Some(clean), emb, ModelLoadFailed, <<>>)})
        \cup {Outcome(TRUE, Some(clean), emb, CorpusEncodeFailed, <<texts>>),
              Outcome(TRUE, Some(clean), Some(encode(texts)), NoErr, <<texts>>)}

Call(op, args, out, results) ==
    [op |-> op, args |-> args, err |-> out.err, calls |-> out.calls, results |-> results]

LoadFrom(S) ==
    \E src \in S :
        \E out \in LoadMovies(model, df_movies, plot_embeddings, src) :
        /\ model' = out.model
        /\ df_movies' = out.df
        /\ plot_embeddings' = out.emb
        /\ last' = Call("load_movies", <<src>>, out, <<>>)
        /\ everBuilt' = (everBuilt \/ out.err = NoErr)

(* ---------------- search_movies ---------------- *)

Dot(u, v) == u[1] * v[1] + u[2] * v[2]

\* sklearn cosine_similarity of two vectors, on an integer scale that keeps its
\* order and its ties: 100 * cos^2 with the sign of cos, and 0 when a vector has
\* zero norm (sklearn normalises a zero vector to itself).
CosineSimilarity(q, v) ==
    IF Dot(q, q) = 0 \/ Dot(v, v) = 0 THEN 0
    ELSE LET d == Dot(q, v) IN
         (IF d < 0 THEN -1 ELSE 1) * ((100 * d * d) \div (Dot(q, q) * Dot(v, v)))

Similarities(qv, emb) == [i \in 1..Len(emb) |-> CosineSimilarity(qv, emb[i])]

Perms(n) == {p \in [1..n -> 1..n] : \A i, j \in 1..n : p[i] = p[j] => i = j}

\* numpy argsort (default kind, not stable): the index orders that put the values
\* in ascending order; equal values may come in either order.
Argsort(a) == {p \in Perms(Len(a)) : \A i, j \in 1..Len(a) : i < j => a[p[i]] <= a[p[j]]}

\* The slice without its step: p[:] for p[::-1].
NotReversed(p) == p

\* p[::-1]
Reversed(p) == [i \in 1..Len(p) |-> p[Len(p) + 1 - i]]

\* p[:n] for n > 0
Prefix(p, n) == SubSeq(p, 1, IF n < Len(p) THEN n ELSE Len(p))

\* similarities.argsort()[::-1][:top_n]
TopIndices(sims, n) == {Prefix(Reversed(p), n) : p \in Argsort(sims)}

\* A result row; pos is the positional index the row had in df_movies (the
\* returned frame does not carry it: reset_index drops it).
Scored(pos, row, sim) ==
    [pos |-> pos, title |-> row["title"], plot |-> row["plot"], similarity |-> sim]

\* sort_values with the default ascending=True.
SortValuesAscending(rs) ==
    {[i \in 1..Len(rs) |-> rs[p[i]]] : p \in
        {p \in Perms(Len(rs)) :
            \A i, j \in 1..Len(rs) : i < j => rs[p[i]].similarity <= rs[p[j]].similarity}}

\* results.sort_values(by='similarity', ascending=False): the orders of the rows
\* with similarity descending (default kind, not stable).
SortValues(rs) ==
    {[i \in 1..Len(rs) |-> rs[p[i]]] : p \in
        {p \in Perms(Len(rs)) :
            \A i, j \in 1..Len(rs) : i < j => rs[p[i]].similarity >= rs[p[j]].similarity}}

\* if not isinstance(query, str) or query.strip() == ''
InvalidQuery(q) == ~q.isStr \/ strip(q.s) = <<>>

\* `<` for `<=`.
InvalidTopNNegative(n) == ~n.isInt \/ n.n < 0

\* if not isinstance(top_n, int) or top_n <= 0
InvalidTopN(n) == ~n.isInt \/ n.n <= 0

\* `and` for `or` in the test.
UnloadedBoth(df, emb) == df = None /\ emb = None

\* if self.df_movies is None or self.plot_embeddings is None
Unloaded(df, emb) == df = None \/ emb = None

\* Without the copy: the selected rows replace the frame.
FrameWithoutCopy(df, results) ==
    IF results = <<>> THEN df
    ELSE Some(Frame(df[1].cols, [k \in 1..Len(results) |-> Row(results[k].title, results[k].plot)]))

\* df_movies after results = self.df_movies.iloc[top_indices].copy() and the
\* in-place changes of results: the copy takes them, the frame is untouched.
FrameAfterCopy(df, results) == df


Found(df, err, calls, results) ==
    [df |-> df, err |-> err, calls |-> calls, results |-> results]

\* The outcomes of search_movies(q, n): what it raised or returned. The provider
\* may fail or answer; self.model.encode on a model of None raises as well.
SearchMovies(m, df, emb, q, n) ==
    IF InvalidQuery(q) THEN {Found(df, BadQuery, <<>>, <<>>)}
    ELSE IF InvalidTopN(n) THEN {Found(df, BadTopN, <<>>, <<>>)}
    ELSE IF Unloaded(df, emb) THEN {Found(df, NotLoaded, <<>>, <<>>)}
    ELSE IF ~m THEN {Found(df, QueryEncodeFailed, <<>>, <<>>)}
    ELSE
    {Found(df, QueryEncodeFailed, <<<<q.s>>>>, <<>>)} \cup
    IF emb = None THEN {Found(df, CosineFailed, <<<<q.s>>>>, <<>>)}
    ELSE IF df = None THEN {Found(df, NoneHasNoIloc, <<<<q.s>>>>, <<>>)}
    ELSE
    LET query_emb == encode(<<q.s>>)
        similarities == Similarities(query_emb[1], emb[1])
        frame == df[1]
    IN  UNION {
          IF \E k \in 1..Len(top) : top[k] > Len(frame.rows)
          THEN {Found(df, IlocOutOfBounds, <<<<q.s>>>>, <<>>)}
          ELSE
          LET picked == [k \in 1..Len(top) |->
                            Scored(top[k], [c \in {"title", "plot"} |->
                                               IF c \in frame.cols THEN frame.rows[top[k]][c] ELSE NaN],
                                   similarities[top[k]])]
          IN  {IF {"title", "plot"} \subseteq frame.cols
               THEN Found(FrameAfterCopy(df, results), NoErr, <<<<q.s>>>>, results)
               ELSE Found(FrameAfterCopy(df, results), ColumnKeyError, <<<<q.s>>>>, <<>>)
                 : results \in SortValues(picked)}
          : top \in TopIndices(similarities, n.n)}

search_movies ==
    \E q \in Queries, n \in TopNs :
        \E out \in SearchMovies(model, df_movies, plot_embeddings, q, n) :
            /\ df_movies' = out.df
            /\ last' = Call("search_movies", <<q, n>>, out, out.results)
            /\ UNCHANGED <<model, plot_embeddings, everBuilt>>

Init ==
    /\ model = FALSE
    /\ df_movies = None
    /\ plot_embeddings = None
    /\ last = [op |-> "init", args |-> <<>>, err |-> NoErr, calls |-> <<>>, results |-> <<>>]
    /\ everBuilt = FALSE

load_movies == LoadFrom(Sources)

Next == load_movies \/ search_movies

\* Builds only, from every CSV file.
load_any == LoadFrom(AllSources)

SpecLoad == Init /\ [][load_any]_vars

Spec == Init /\ [][Next]_vars

(* ======================= properties ======================= *)

IsLoad == last.op = "load_movies"
IsSearch == last.op = "search_movies"
Returned == last.err = NoErr

\* The arguments of the last call.
Source == last.args[1]
Query == last.args[1]
TopN == last.args[2]

\* A non-empty string after trimming; a positive integer.
ValidText(q) == q.isStr /\ \E i \in 1..Len(q.s) : q.s[i] # " "
PositiveInt(n) == n.isInt /\ n.n > 0

\* Corpus and EmbeddingMatrix both present.
Ready == df_movies # None /\ plot_embeddings # None
Corpus == df_movies[1].rows
Matrix == plot_embeddings[1]

Min(a, b) == IF a < b THEN a ELSE b

\* The spec's failure kind of each raise statement, by its line.
KindOf(e) ==
    CASE e.site = 58 -> "NotFoundError"
      [] e.site = 66 -> "SchemaError"
      [] e.site = 72 -> "EmptyCorpusError"
      [] e.site = 43 -> "ModelLoadError"
      [] e.site \in {82, 113, 119} -> "EmbeddingError"
      [] e.site = 101 -> "InvalidQueryError"
      [] e.site = 104 -> "InvalidTopNError"
      [] e.site = 107 -> "NotBuiltError"
      [] OTHER -> "unlisted"

(* C1: a load_movies call that raises leaves df_movies and plot_embeddings  *)
(* as they were before the call, or leaves the index unbuilt (search_movies *)
(* reports it as not loaded); and in no state are df_movies and            *)
(* plot_embeddings both present with different lengths.                    *)
BuildIsAtomic ==
    [][/\ (last'.op = "load_movies" /\ last'.err # NoErr) =>
              \/ <<df_movies', plot_embeddings'>> = <<df_movies, plot_embeddings>>
              \/ df_movies' = None \/ plot_embeddings' = None
       /\ (df_movies' # None /\ plot_embeddings' # None) =>
              Len(df_movies'[1].rows) = Len(plot_embeddings'[1])]_vars

(* C2: search_movies with a non-empty text and a positive integer top_n,   *)
(* called while no load_movies call has returned normally, raises the      *)
(* "not loaded" error and returns no results.                              *)
QueryBeforeBuildIsNotBuilt ==
    (IsSearch /\ ValidText(Query) /\ PositiveInt(TopN) /\ ~everBuilt) =>
        (KindOf(last.err) = "NotBuiltError" /\ last.results = <<>>)

\* Such a query after a failed build, which has left a frame in df_movies.
QueryAfterFailedBuild ==
    /\ IsSearch /\ ValidText(Query) /\ PositiveInt(TopN) /\ ~everBuilt
    /\ df_movies # None
    /\ last.err = NotLoaded

(* C3: on a Ready index, search_movies with a valid text and a positive    *)
(* integer top_n (the provider answering) returns exactly                  *)
(* min(top_n, corpus size) results.                                        *)
QueryReturnsMinTopN ==
    (IsSearch /\ ValidText(Query) /\ PositiveInt(TopN) /\ Ready /\ last.err # QueryEncodeFailed) =>
        (Returned /\ Len(last.results) = Min(TopN.n, Len(Corpus)))

\* The positions search_movies returned, and the similarity of every row of
\* the EmbeddingMatrix to the last query.
ReturnedPositions == {last.results[k].pos : k \in 1..Len(last.results)}
QuerySimilarities == Similarities(Embed(Query.s), Matrix)

(* C4 as stated: the returned sequence is ordered by descending similarity, *)
(* and two results of equal similarity appear in ascending corpus position. *)
ResultsOrderedTiesByPosition ==
    (IsSearch /\ Returned) =>
        \A i, j \in 1..Len(last.results) :
            i < j =>
                \/ last.results[i].similarity > last.results[j].similarity
                \/ /\ last.results[i].similarity = last.results[j].similarity
                   /\ last.results[i].pos < last.results[j].pos

(* C4 amended: the returned sequence is ordered by similarity, largest      *)
(* first; nothing is said of the order of two results of equal similarity.  *)
ResultsOrderedBySimilarity ==
    (IsSearch /\ Returned) =>
        \A i, j \in 1..Len(last.results) :
            i < j => last.results[i].similarity >= last.results[j].similarity

\* A query that returned two results of different similarity.
TwoResultsDifferentSimilarity ==
    /\ IsSearch /\ Returned /\ Len(last.results) >= 2
    /\ last.results[1].similarity > last.results[2].similarity

(* C5 as stated: no row left out has a larger similarity than a returned    *)
(* row, and a left-out row that ties with a returned row comes later in the *)
(* corpus than the returned one.                                            *)
SelectionTiesByPosition ==
    (IsSearch /\ Returned) =>
        \A p \in (1..Len(Matrix)) \ ReturnedPositions : \A k \in 1..Len(last.results) :
            /\ QuerySimilarities[p] <= last.results[k].similarity
            /\ QuerySimilarities[p] = last.results[k].similarity => last.results[k].pos < p

(* C5 amended: the returned rows are min(top_n, rows of the EmbeddingMatrix) *)
(* different positions, and no row left out has a larger similarity than a   *)
(* returned row.                                                             *)
SelectionBySimilarity ==
    (IsSearch /\ Returned) =>
        /\ Cardinality(ReturnedPositions) = Len(last.results)
        /\ Len(last.results) = Min(TopN.n, Len(Matrix))
        /\ \A p \in (1..Len(Matrix)) \ ReturnedPositions : \A k \in 1..Len(last.results) :
              QuerySimilarities[p] <= last.results[k].similarity

\* A query that left out a row of smaller similarity than the one it returned.
LeftOutLessSimilar ==
    /\ IsSearch /\ Returned /\ Len(last.results) >= 1
    /\ \E p \in (1..Len(Matrix)) \ ReturnedPositions :
          QuerySimilarities[p] < last.results[Len(last.results)].similarity

\* The rows of a source whose title and plot are both present and whose plot
\* has a character other than a space, in source order.
Surviving(rows) ==
    SelectSeq(rows, LAMBDA r : r["title"] # NaN /\ r["plot"] # NaN
                                 /\ \E i \in 1..Len(r["plot"]) : r["plot"][i] # " ")

HasRequiredColumns(src) == src.kind = "table" /\ {"title", "plot"} \subseteq src.cols

(* C6: after a load_movies call that returned, the corpus is the sequence of *)
(* surviving source rows in source order; and a load_movies call on a source *)
(* with both columns raises the empty-corpus error exactly when no row       *)
(* survives.                                                                 *)
CleaningContract ==
    (IsLoad /\ HasRequiredColumns(Source)) =>
        /\ Returned => Corpus = Surviving(Source.rows)
        /\ KindOf(last.err) = "EmptyCorpusError" <=> Surviving(Source.rows) = <<>>

(* C7 as stated: two failures of different kinds are reported with          *)
(* different exception classes.                                             *)
KindsDifferByClass ==
    [][(/\ KindOf(last.err) # "unlisted" /\ KindOf(last'.err) # "unlisted"
        /\ last.err # NoErr /\ last'.err # NoErr
        /\ KindOf(last.err) # KindOf(last'.err))
          => last.err.cls # last'.err.cls]_vars

\* The exception class that reports each failure kind.
ClassOfKind(k) ==
    CASE k = "NotFoundError" -> "FileNotFoundError"
      [] k \in {"SchemaError", "EmptyCorpusError", "InvalidQueryError",
                "InvalidTopNError", "NotBuiltError"} -> "ValueError"
      [] k \in {"ModelLoadError", "EmbeddingError"} -> "RuntimeError"

(* C7 amended: each failure kind is reported with the class ClassOfKind     *)
(* gives it (three classes in all), and two failures of different kinds     *)
(* differ in class or in message text.                                      *)
KindsDifferByClassOrMessage ==
    [][(/\ KindOf(last.err) # "unlisted" /\ KindOf(last'.err) # "unlisted"
        /\ last.err # NoErr /\ last'.err # NoErr
        /\ KindOf(last.err) # KindOf(last'.err))
          => /\ last'.err.cls = ClassOfKind(KindOf(last'.err))
             /\ <<last.err.cls, last.err.msg>> # <<last'.err.cls, last'.err.msg>>]_vars

\* An invalid top_n reported on an unbuilt index, as a ValueError.
TopNErrorOnUnbuilt ==
    IsSearch /\ KindOf(last.err) = "InvalidTopNError" /\ last.err.cls = "ValueError" /\ ~Ready

(* C8: a search_movies call, returning or raising, leaves df_movies and     *)
(* plot_embeddings unchanged, and a call that returns has made exactly one  *)
(* encode call, on the query text.                                          *)
QueryIsPureRead ==
    [][last'.op = "search_movies" =>
          /\ df_movies' = df_movies
          /\ plot_embeddings' = plot_embeddings
          /\ last'.err = NoErr => last'.calls = <<<<last'.args[1].s>>>>]_vars

\* A query that returned results.
QueryReturnedResults == IsSearch /\ Returned /\ Len(last.results) >= 1 /\ Len(last.calls) = 1

(* C9: a query whose text is not a non-empty string after trimming raises   *)
(* the invalid-query error; otherwise a top_n that is not a positive        *)
(* integer raises the invalid-top_n error; both in every index state and    *)
(* with no encode call.                                                     *)
ValidationOrder ==
    IsSearch =>
        /\ ~ValidText(Query) => (KindOf(last.err) = "InvalidQueryError" /\ last.calls = <<>>)
        /\ (ValidText(Query) /\ ~PositiveInt(TopN)) =>
              (KindOf(last.err) = "InvalidTopNError" /\ last.calls = <<>>)

\* A blank text with top_n = 0 on an unbuilt index: the text is reported.
BlankTextReportedFirst ==
    /\ IsSearch /\ ~Ready /\ Query = StrVal(<<" ">>) /\ TopN = IntVal(0)
    /\ last.err = BadQuery

(* C10: a load_movies call that returned has made exactly one encode call,  *)
(* on the plots of the cleaned corpus in corpus order, and plot_embeddings  *)
(* has one row per corpus row, the i-th the embedding of the i-th plot; a   *)
(* failed encode call is the only one of its load_movies call.              *)
EmbeddingsAligned ==
    IsLoad =>
        /\ Returned =>
              /\ last.calls = <<[i \in 1..Len(Corpus) |-> Corpus[i]["plot"]]>>
              /\ Len(Matrix) = Len(Corpus)
              /\ \A i \in 1..Len(Corpus) : Matrix[i] = Embed(Corpus[i]["plot"])
        /\ KindOf(last.err) = "EmbeddingError" => Len(last.calls) = 1

\* A build of two rows with different plots.
BuiltTwoDifferentPlots ==
    IsLoad /\ Returned /\ Len(Corpus) >= 2 /\ Corpus[1]["plot"] # Corpus[2]["plot"]

====
